---- MODULE Spec2Model ----
(***************************************************************************)
(* Model of crocoddyl's control residual, ResidualModelControlTpl          *)
(* (include/crocoddyl/core/residuals/control.hxx): r(u) = u - uref with    *)
(* a constant identity Jacobian Ru.                                        *)
(*                                                                         *)
(* Vectors are sequences of scalars, matrices are sequences of rows.       *)
(* An exception leaves its name in lastOp.err.                             *)
(***************************************************************************)
EXTENDS Integers, Sequences, FiniteSets, TLC

\* Largest control dimension (and tangent dimension nv) that is tried.
MaxNu == 2
\* The evaluation contexts (trajectory nodes); each owns at most one data
\* object, made by createData.
Nodes == {1, 2}

\* Sample values of the Scalar type; enough to tell u - uref from uref - u,
\* from u + uref and from a permutation of the components.
Scalars == {0, 1}

VARIABLES
  built,    \* a model object exists (a constructor returned normally)
  nu_,      \* ResidualModelAbstract::nu_
  nr_,      \* ResidualModelAbstract::nr_
  uref_,    \* ResidualModelControlTpl::uref_
  datas,    \* per node, its data object [made, r, Ru]
  lastOp,   \* the last call: [op, d, u, err]
  refHist,  \* history: <<v>> once set_reference(v) has succeeded, else << >>
  wpc,      \* concurrent evaluation: each worker's position
  wk,       \* concurrent evaluation: next coefficient each worker writes
  wu        \* concurrent evaluation: each worker's control vector

vars == <<built, nu_, nr_, uref_, datas, lastOp, refHist, wpc, wk, wu>>

modelVars == <<built, nu_, nr_, uref_>>
workerVars == <<wpc, wk, wu>>

----------------------------------------------------------------------------
\* Linear algebra

VecN(n) == [1..n -> Scalars]
Vectors == UNION {VecN(n) : n \in 0..MaxNu}
\* State vectors x handed to calc / calcDiff.
States == VecN(1)

\* VectorXs::Zero(n)
Zero(n) == [i \in 1..n |-> 0]
\* MatrixXs::Zero(n, m)
ZeroMatrix(n, m) == [i \in 1..n |-> [j \in 1..m |-> 0]]
\* MatrixXs::Identity(n, m)
Identity(n, m) == [i \in 1..n |-> [j \in 1..m |-> IF i = j THEN 1 ELSE 0]]

\* mutant: M.fill(v), every coefficient and not the diagonal alone
diagonal_fill_all(M, v) ==
  [i \in 1..Len(M) |-> [j \in 1..Len(M[i]) |-> v]]

\* M.diagonal().fill(v)
diagonal_fill(M, v) ==
  [i \in 1..Len(M) |-> [j \in 1..Len(M[i]) |-> IF i = j THEN v ELSE M[i][j]]]

\* r.setZero(): every coefficient becomes 0, the size is kept
setZero(r) == [i \in 1..Len(r) |-> 0]

\* M.isApprox(N) on the exact values used here
isApprox(M, N) == M = N

----------------------------------------------------------------------------
\* Base classes

\* ResidualModelAbstractTpl(state, nr, nu, ...): stores the dimensions
ResidualModelAbstract(nr, nu) == [nr |-> nr, nu |-> nu]

\* ResidualDataAbstractTpl(model, collector): r of size nr, Ru of nr x nu,
\* Ru zeroed; r0 is the content r starts with
ResidualDataAbstract(nr, nu, r0) ==
  [made |-> TRUE, r |-> r0, Ru |-> ZeroMatrix(nr, nu)]

\* a node that has no data object yet
NoData == [made |-> FALSE, r |-> << >>, Ru |-> << >>]

NoOp == [op |-> "none", d |-> 0, u |-> << >>, err |-> "none"]
Call(op, d, u, err) == [op |-> op, d |-> d, u |-> u, err |-> err]

----------------------------------------------------------------------------
\* Construction

\* the test `nu_ == 0` of the first two constructors
ctor_throws(nu) == nu = 0

\* mutant: uref_(VectorXs::Ones(nu))
ctor_ones_uref(nu) == [i \in 1..nu |-> 1]

\* uref_(VectorXs::Zero(nu))
ctor_zero_uref(nu) == Zero(nu)

\* ResidualModelControlTpl(state, uref)
ResidualModelControlTpl_uref(uref) ==
  /\ ~built
  /\ LET base == ResidualModelAbstract(Len(uref), Len(uref)) IN
     IF ctor_throws(base.nu)
       THEN /\ UNCHANGED modelVars
            /\ lastOp' = Call("ctor_uref", Len(uref), uref, "InvalidArgument")
       ELSE /\ built' = TRUE
            /\ nu_' = base.nu
            /\ nr_' = base.nr
            /\ uref_' = uref
            /\ lastOp' = Call("ctor_uref", Len(uref), uref, "none")
  /\ UNCHANGED <<datas, refHist, workerVars>>

\* ResidualModelControlTpl(state, nu)
ResidualModelControlTpl_nu(nu) ==
  /\ ~built
  /\ LET base == ResidualModelAbstract(nu, nu) IN
     IF ctor_throws(base.nu)
       THEN /\ UNCHANGED modelVars
            /\ lastOp' = Call("ctor_nu", nu, << >>, "InvalidArgument")
       ELSE /\ built' = TRUE
            /\ nu_' = base.nu
            /\ nr_' = base.nr
            /\ uref_' = ctor_zero_uref(nu)
            /\ lastOp' = Call("ctor_nu", nu, << >>, "none")
  /\ UNCHANGED <<datas, refHist, workerVars>>

\* ResidualModelControlTpl(state): the dimension is state->get_nv(); the
\* body is empty, nothing is tested
ResidualModelControlTpl_state(nv) ==
  /\ ~built
  /\ LET base == ResidualModelAbstract(nv, nv) IN
     /\ built' = TRUE
     /\ nu_' = base.nu
     /\ nr_' = base.nr
     /\ uref_' = ctor_zero_uref(nv)
     /\ lastOp' = Call("ctor_state", nv, << >>, "none")
  /\ UNCHANGED <<datas, refHist, workerVars>>

----------------------------------------------------------------------------
\* Evaluation

\* mutant: only a control that is too long is refused
calc_throws_longer(u, nu) == Len(u) > nu

\* the test `u.size() != nu_` of calc
calc_throws(u, nu) == Len(u) # nu

\* mutant: the state leaks into the residual
calc_r_reads_x(x, u, uref) == [i \in 1..Len(u) |-> u[i] - uref[i] + x[1]]

\* the expression u - uref_ assigned to data->r (x is not named in the code)
calc_r(x, u, uref) == [i \in 1..Len(u) |-> u[i] - uref[i]]

\* calc(data, x, u)
calc(d, x, u) ==
  /\ built
  /\ datas[d].made
  /\ IF calc_throws(u, nu_)
       THEN /\ UNCHANGED datas
            /\ lastOp' = Call("calc", d, u, "InvalidArgument")
       ELSE /\ datas' = [datas EXCEPT ![d].r = calc_r(x, u, uref_)]
            /\ lastOp' = Call("calc", d, u, "none")
  /\ UNCHANGED <<modelVars, refHist, workerVars>>

\* mutant: the state-only calc leaves r as it is
calc_x_r_kept(r) == r

\* the statement data->r.setZero() of the state-only calc
calc_x_r(r) == setZero(r)

\* calc(data, x)
calc_x(d, x) ==
  /\ built
  /\ datas[d].made
  /\ datas' = [datas EXCEPT ![d].r = calc_x_r(@)]
  /\ lastOp' = Call("calc_x", d, << >>, "none")
  /\ UNCHANGED <<modelVars, refHist, workerVars>>

\* what calcDiff leaves in the data object: it has no statement but the
\* assertion
calcDiff_data(data) == data

\* calcDiff(data, x, u); x and u are unnamed parameters, nothing can read
\* them; ndebug is the build (NDEBUG defined or not)
calcDiff(d, ndebug) ==
  /\ built
  /\ datas[d].made
  /\ datas' = [datas EXCEPT ![d] = calcDiff_data(@)]
  /\ lastOp' = Call("calcDiff", d, << >>,
                    IF ~ndebug /\ ~isApprox(datas[d].Ru, Identity(nu_, nu_))
                      THEN "AssertionFailed" ELSE "none")
  /\ UNCHANGED <<modelVars, refHist, workerVars>>

\* data->Ru.diagonal().fill(1) on a fresh ResidualDataAbstract
createData_data(nr, nu, r0) ==
  LET data == ResidualDataAbstract(nr, nu, r0) IN
    [data EXCEPT !.Ru = diagonal_fill(@, 1)]

\* createData(collector)
createData(d) ==
  /\ built
  /\ ~datas[d].made
  /\ \E r0 \in VecN(nr_) :
       datas' = [datas EXCEPT ![d] = createData_data(nr_, nu_, r0)]
  /\ lastOp' = Call("createData", d, << >>, "none")
  /\ UNCHANGED <<modelVars, refHist, workerVars>>

----------------------------------------------------------------------------
\* Reference accessors

\* get_reference() returns a reference to uref_
get_reference == uref_

GetReference ==
  /\ built
  /\ lastOp' = Call("get_reference", 0, get_reference, "none")
  /\ UNCHANGED <<modelVars, datas, refHist, workerVars>>

\* mutant: only a reference that is too long is refused
set_reference_throws_longer(reference, nu) == Len(reference) > nu

\* mutant: the size is not tested at all
set_reference_never_throws(reference, nu) == FALSE

\* the test `reference.size() != nu_` of set_reference
set_reference_throws(reference, nu) == Len(reference) # nu

\* mutant: the assignment is lost
set_reference_uref_kept(reference, uref) == uref

\* the assignment uref_ = reference
set_reference_uref(reference, uref) == reference

\* set_reference(reference)
set_reference(reference) ==
  /\ built
  /\ IF set_reference_throws(reference, nu_)
       THEN /\ UNCHANGED <<uref_, refHist>>
            /\ lastOp' = Call("set_reference", 0, reference, "InvalidArgument")
       ELSE /\ uref_' = set_reference_uref(reference, uref_)
            /\ refHist' = <<reference>>
            /\ lastOp' = Call("set_reference", 0, reference, "none")
  /\ UNCHANGED <<built, nu_, nr_, datas, workerVars>>

----------------------------------------------------------------------------
\* Sequential use: one caller, any order of calls

Init ==
  /\ built = FALSE
  /\ nu_ = 0
  /\ nr_ = 0
  /\ uref_ = << >>
  /\ datas = [d \in Nodes |-> NoData]
  /\ lastOp = NoOp
  /\ refHist = << >>
  /\ wpc = << >>
  /\ wk = << >>
  /\ wu = << >>

Next ==
  \/ \E uref \in Vectors : ResidualModelControlTpl_uref(uref)
  \/ \E nu \in 0..MaxNu : ResidualModelControlTpl_nu(nu)
  \/ \E nv \in 0..MaxNu : ResidualModelControlTpl_state(nv)
  \/ \E d \in Nodes, x \in States, u \in Vectors : calc(d, x, u)
  \/ \E d \in Nodes, x \in States : calc_x(d, x)
  \/ \E d \in Nodes, ndebug \in BOOLEAN : calcDiff(d, ndebug)
  \/ \E d \in Nodes : createData(d)
  \/ GetReference
  \/ \E reference \in Vectors : set_reference(reference)

Spec == Init /\ [][Next]_vars

----------------------------------------------------------------------------
\* Concurrent evaluation: worker w evaluates node w, calling
\* calc(data_w, x, u_w) and then calcDiff(data_w, x, u_w) on the shared
\* model. The assignment data->r = u - uref_ is a loop over the
\* coefficients; every coefficient is a step of its own.

\* mutant: every call writes one shared buffer
calc_target_shared(w) == 1

\* the data object a call writes: its `data` argument
calc_target(w) == w

\* calc, the size test
WCheck(w) ==
  /\ wpc[w] = "check"
  /\ wpc' = [wpc EXCEPT ![w] =
               IF calc_throws(wu[w], nu_) THEN "failed"
               ELSE IF nu_ = 0 THEN "diff" ELSE "coeff"]
  /\ UNCHANGED <<modelVars, datas, lastOp, refHist, wk, wu>>

\* calc, one coefficient of data->r = u - uref_
WCoeff(w) ==
  /\ wpc[w] = "coeff"
  /\ \E x \in States :
       datas' = [datas EXCEPT ![calc_target(w)].r[wk[w]] =
                   calc_r(x, wu[w], uref_)[wk[w]]]
  /\ IF wk[w] = nu_
       THEN /\ wpc' = [wpc EXCEPT ![w] = "diff"]
            /\ wk' = wk
       ELSE /\ wk' = [wk EXCEPT ![w] = @ + 1]
            /\ wpc' = wpc
  /\ UNCHANGED <<modelVars, lastOp, refHist, wu>>

\* calcDiff
WDiff(w) ==
  /\ wpc[w] = "diff"
  /\ datas' = [datas EXCEPT ![calc_target(w)] = calcDiff_data(@)]
  /\ \E ndebug \in BOOLEAN :
       wpc' = [wpc EXCEPT ![w] =
                 IF ~ndebug /\ ~isApprox(datas[calc_target(w)].Ru,
                                         Identity(nu_, nu_))
                   THEN "failed" ELSE "done"]
  /\ UNCHANGED <<modelVars, lastOp, refHist, wk, wu>>

\* A model of any dimension and reference, one data object per node as
\* createData makes it, and a control of the right size per worker.
InitConc ==
  /\ built = TRUE
  /\ nu_ \in 0..MaxNu
  /\ nr_ = nu_
  /\ uref_ \in VecN(nu_)
  /\ datas \in [Nodes -> {createData_data(nr_, nu_, r0) : r0 \in VecN(nr_)}]
  /\ lastOp = NoOp
  /\ refHist = << >>
  /\ wpc = [w \in Nodes |-> "check"]
  /\ wk = [w \in Nodes |-> 1]
  /\ wu \in [Nodes -> VecN(nu_)]

NextConc ==
  \/ \E w \in Nodes : WCheck(w)
  \/ \E w \in Nodes : WCoeff(w)
  \/ \E w \in Nodes : WDiff(w)

SpecConc == InitConc /\ [][NextConc]_vars

----------------------------------------------------------------------------
\* Properties

\* C1: after calc(data, x, u) with u of length nu > 0 the call has not
\* thrown and data.r[i] = u[i] - uref[i] for every i, whatever x and the
\* former content of data.r were.
C1_CalcResidual ==
  (lastOp.op = "calc" /\ Len(lastOp.u) = nu_ /\ nu_ > 0) =>
    /\ lastOp.err = "none"
    /\ Len(datas[lastOp.d].r) = nu_
    /\ \A i \in 1..nu_ : datas[lastOp.d].r[i] = lastOp.u[i] - uref_[i]

C1_Witness ==
  /\ lastOp.op = "calc"
  /\ lastOp.err = "none"
  /\ nu_ = 2
  /\ datas[lastOp.d].r = <<1, -1>>

\* C2: a construction whose control dimension is zero throws
\* InvalidArgument in each of the three forms, and no model with nu = 0
\* exists.
C2_ZeroDimensionRejected ==
  /\ (lastOp.op \in {"ctor_uref", "ctor_nu", "ctor_state"} /\ lastOp.d = 0) =>
       lastOp.err = "InvalidArgument"
  /\ built => nu_ > 0

\* C3: calc(data, x, u) with u of a length other than nu throws
\* InvalidArgument and changes neither the data objects nor the model.
C3_CalcWrongSize ==
  [][(lastOp'.op = "calc" /\ Len(lastOp'.u) # nu_) =>
       /\ lastOp'.err = "InvalidArgument"
       /\ UNCHANGED <<datas, modelVars>>]_vars

C3_Witness ==
  /\ lastOp.op = "calc"
  /\ lastOp.err = "InvalidArgument"
  /\ nu_ = 2
  /\ datas[lastOp.d].r = <<-1, 1>>

\* C4: set_reference with a vector of a length other than nu throws
\* InvalidArgument and leaves the reference, the model and the data objects
\* as they were, so that get_reference and later calls see no trace of it.
C4_SetReferenceWrongSize ==
  [][(lastOp'.op = "set_reference" /\ Len(lastOp'.u) # nu_) =>
       /\ lastOp'.err = "InvalidArgument"
       /\ get_reference' = get_reference
       /\ UNCHANGED <<datas, modelVars, refHist>>]_vars

C4_Witness ==
  /\ lastOp.op = "set_reference"
  /\ lastOp.err = "InvalidArgument"
  /\ nu_ = 2
  /\ uref_ = <<0, 1>>

\* C5: set_reference(v) with v of length nu succeeds, changes no data
\* object, and from then on get_reference is v and every calc(data, x, u)
\* that succeeds leaves r[i] = u[i] - v[i], on any data object.
C5_SetReferenceUsed ==
  /\ [][(lastOp'.op = "set_reference" /\ Len(lastOp'.u) = nu_) =>
          /\ lastOp'.err = "none"
          /\ get_reference' = lastOp'.u
          /\ datas' = datas]_vars
  /\ [](refHist # << >> => get_reference = refHist[1])
  /\ []((refHist # << >> /\ lastOp.op = "calc" /\ lastOp.err = "none") =>
          \A i \in 1..nu_ :
            datas[lastOp.d].r[i] = lastOp.u[i] - refHist[1][i])

C5_Witness ==
  /\ refHist = << <<1, 0>> >>
  /\ lastOp.op = "calc"
  /\ lastOp.err = "none"
  /\ lastOp.u = <<0, 1>>
  /\ datas[lastOp.d].r = <<-1, 1>>

\* C6: the Ru of every data object is the nu x nu identity from createData
\* on, after any calls, and calcDiff changes nothing in any data object.
C6_RuIdentity ==
  /\ [](\A d \in Nodes : datas[d].made =>
          /\ Len(datas[d].Ru) = nu_
          /\ \A i \in 1..nu_ :
               /\ Len(datas[d].Ru[i]) = nu_
               /\ \A j \in 1..nu_ :
                    datas[d].Ru[i][j] = IF i = j THEN 1 ELSE 0)
  /\ [][lastOp'.op = "calcDiff" =>
          /\ datas' = datas
          /\ lastOp'.err = "none"]_vars

C6_Witness ==
  /\ lastOp.op = "calcDiff"
  /\ nu_ = 2
  /\ \A d \in Nodes : datas[d].made
  /\ refHist # << >>

\* C7: calc(data, x) never throws, leaves data.r the zero vector of length
\* nu, and changes neither data.Ru, nor another data object, nor the model.
C7_CalcStateOnly ==
  [][lastOp'.op = "calc_x" =>
       /\ lastOp'.err = "none"
       /\ Len(datas'[lastOp'.d].r) = nu_
       /\ \A i \in 1..nu_ : datas'[lastOp'.d].r[i] = 0
       /\ datas'[lastOp'.d].Ru = datas[lastOp'.d].Ru
       /\ \A e \in Nodes \ {lastOp'.d} : datas'[e] = datas[e]
       /\ UNCHANGED modelVars]_vars

C7_Witness ==
  /\ lastOp.op = "calc_x"
  /\ nu_ = 2
  /\ uref_ = <<1, 1>>
  /\ datas[lastOp.d].r = <<0, 0>>

\* C8: a construction that succeeds leaves nu = nr and a reference of
\* length nu: the given vector, or the zero vector of the given dimension,
\* or the zero vector of the state's nv.
C8_Construction ==
  /\ (lastOp.op = "ctor_uref" /\ lastOp.err = "none") =>
       /\ built
       /\ nu_ = Len(lastOp.u)
       /\ nr_ = nu_
       /\ get_reference = lastOp.u
  /\ (lastOp.op \in {"ctor_nu", "ctor_state"} /\ lastOp.err = "none") =>
       /\ built
       /\ nu_ = lastOp.d
       /\ nr_ = nu_
       /\ Len(get_reference) = nu_
       /\ \A i \in 1..nu_ : get_reference[i] = 0

C8_Witness ==
  /\ lastOp.op = "ctor_nu"
  /\ lastOp.err = "none"
  /\ nu_ = 2

\* C9: with each worker on its own data object and no set_reference, a step
\* of a worker writes neither another worker's data object nor the model, no
\* call fails, and when all calls have returned data_w.r[i] = u_w[i] -
\* uref[i] and data_w.Ru is the identity, in every interleaving.
C9_ConcurrentCalc ==
  [][/\ \A w \in Nodes : (wpc'[w] # wpc[w] \/ wk'[w] # wk[w]) =>
          /\ \A v \in Nodes \ {w} : datas'[v] = datas[v]
          /\ UNCHANGED modelVars
     /\ \A w \in Nodes : wpc'[w] # "failed"
     /\ (\A w \in Nodes : wpc'[w] = "done") =>
          \A w \in Nodes :
            /\ Len(datas'[w].r) = nu_
            /\ Len(datas'[w].Ru) = nu_
            /\ \A i \in 1..nu_ :
                 /\ datas'[w].r[i] = wu[w][i] - uref_[i]
                 /\ \A j \in 1..nu_ :
                      datas'[w].Ru[i][j] = IF i = j THEN 1 ELSE 0]_vars

C9_Witness ==
  /\ \A w \in Nodes : wpc[w] = "done"
  /\ nu_ = 2
  /\ uref_ = <<1, 0>>
  /\ wu[1] = <<0, 1>>
  /\ wu[2] = <<1, 1>>

\* C10: once a model exists, nu and nr never change, the reference has
\* length nu, and the reference changes only in a set_reference that
\* succeeds.
C10_ReferenceLength ==
  /\ [](built => Len(uref_) = nu_)
  /\ [][built =>
          /\ built'
          /\ nu_' = nu_
          /\ nr_' = nr_
          /\ uref_' # uref_ =>
               (lastOp'.op = "set_reference" /\ lastOp'.err = "none")]_vars

C10_Witness ==
  /\ lastOp.op = "set_reference"
  /\ lastOp.err = "InvalidArgument"
  /\ refHist = << <<1, 1>> >>
  /\ \E d \in Nodes : datas[d].made /\ datas[d].r = <<1, 1>>

====
